---- MODULE Spec2Model ----
(***************************************************************************)
(* Indoor navigation graph engine (edge_loader.py, route_v2.py).           *)
(*                                                                         *)
(* A feature collection is loaded into a node set and an edge list, from   *)
(* which the adjacency index and the all-pairs distance matrix are built;  *)
(* POIs and rooms are loaded for the location resolver.  Queries then read *)
(* these structures.                                                       *)
(*                                                                         *)
(* Identifiers are strings; "" is the value props.get(..., '') yields for  *)
(* a missing field.  Weights and distances are naturals.  float('inf') is  *)
(* Inf, with Plus/Less giving it the arithmetic of the float.              *)
(* An absent result (Python None) is NoneId for an identifier and the      *)
(* empty sequence for a path (find_path never returns an empty list).      *)
(***************************************************************************)
EXTENDS Integers, Sequences, FiniteSets, TLC

VARIABLES features, pc, nodes, edges, adjacency, node_index_map,
          weight_matrix, pois, rooms, result

vars == <<features, pc, nodes, edges, adjacency, node_index_map,
          weight_matrix, pois, rooms, result>>

(***************************************************************************)
(* Bounds of the explored inputs.                                          *)
(***************************************************************************)
MaxEdges == 2
MaxWeight == 1
MaxFeatures == 3
MaxVertexLen == 3
MaxPois == 2

(***************************************************************************)
(* Values.                                                                 *)
(***************************************************************************)
Inf == 1000000
NoneId == "None"
NoPath == << >>

Plus(a, b) == IF a = Inf \/ b = Inf THEN Inf ELSE a + b
Less(a, b) == a # Inf /\ (b = Inf \/ a < b)

\* The order sorted() gives the identifiers used here (lexicographic).
IdOrder == <<"", "a1", "a2", "b1", "b2", "c9", "r1", "zz">>

RECURSIVE SortedFrom(_, _)
SortedFrom(S, i) ==
    IF i > Len(IdOrder) THEN << >>
    ELSE IF IdOrder[i] \in S THEN <<IdOrder[i]>> \o SortedFrom(S, i + 1)
    ELSE SortedFrom(S, i + 1)

Sorted(S) == SortedFrom(S, 1)

PoiTypes == {"elevator", "stair", "men_toilet", "women_toilet", "poi"}

(***************************************************************************)
(* Feature records of the input collection.  has_weight says whether the   *)
(* 'weight' property is present; vertex_id is the string of the property,  *)
(* a sequence of pieces, each an identifier or the separator ";".          *)
(***************************************************************************)
Feature(t, id, s, e, d, b, hw, w, v) ==
    [type |-> t, id |-> id, start_node |-> s, end_node |-> e, distance |-> d,
     bidirectional |-> b, has_weight |-> hw, weight |-> w, vertex_id |-> v]

PointF(id) == Feature("point", id, "", "", 0, TRUE, FALSE, 0, << >>)
EdgeF(s, e, d, b) == Feature("edge", "", s, e, d, b, FALSE, 0, << >>)
EdgeWF(s, e, d, b, w) == Feature("edge", "", s, e, d, b, TRUE, w, << >>)
SemF(t, id, v) == Feature(t, id, "", "", 0, TRUE, FALSE, 0, v)
OtherF == Feature("wall", "", "", "", 0, TRUE, FALSE, 0, << >>)

\* NavigationEdge.__init__ as called by the loader.
NavigationEdge(s, e, d, b, w) ==
    [start |-> s, end |-> e, distance |-> d, bidirectional |-> b, weight |-> w]

(***************************************************************************)
(* _load_from_geojson: first pass collects the 'point' ids, second pass    *)
(* appends the edges whose endpoints are present and known.                *)
(***************************************************************************)
RECURSIVE LoadNodes(_, _, _)
LoadNodes(fs, i, acc) ==
    IF i > Len(fs) THEN acc
    ELSE IF fs[i].type = "point" THEN LoadNodes(fs, i + 1, acc \cup {fs[i].id})
    ELSE LoadNodes(fs, i + 1, acc)

AcceptEdge(f, ns) ==
    /\ f.start_node # "" /\ f.end_node # ""
    /\ f.start_node \in ns /\ f.end_node \in ns

\* Variant: one pass, an edge checked against the nodes read before it.
RECURSIVE LoadEdgesOnePass(_, _, _, _)
LoadEdgesOnePass(fs, i, ns, acc) ==
    IF i > Len(fs) THEN acc
    ELSE IF fs[i].type = "edge"
            /\ AcceptEdge(fs[i], LoadNodes(SubSeq(fs, 1, i), 1, {}))
         THEN LoadEdgesOnePass(fs, i + 1, ns,
                  Append(acc, NavigationEdge(fs[i].start_node, fs[i].end_node,
                      fs[i].distance, fs[i].bidirectional,
                      IF fs[i].has_weight THEN fs[i].weight ELSE fs[i].distance)))
    ELSE LoadEdgesOnePass(fs, i + 1, ns, acc)

RECURSIVE LoadEdges(_, _, _, _)
LoadEdges(fs, i, ns, acc) ==
    IF i > Len(fs) THEN acc
    ELSE IF fs[i].type = "edge" /\ AcceptEdge(fs[i], ns)
         THEN LoadEdges(fs, i + 1, ns,
                  Append(acc, NavigationEdge(fs[i].start_node, fs[i].end_node,
                      fs[i].distance, fs[i].bidirectional,
                      IF fs[i].has_weight THEN fs[i].weight ELSE fs[i].distance)))
    ELSE LoadEdges(fs, i + 1, ns, acc)

(***************************************************************************)
(* _build_adjacency_list.                                                  *)
(***************************************************************************)
\* Variant: the reverse entry is added whatever the edge's direction flag.
AddEdgeBothWays(adj, e) ==
    [[adj EXCEPT ![e.start] = Append(@, <<e.end, e.weight>>)]
        EXCEPT ![e.end] = Append(@, <<e.start, e.weight>>)]

AddEdgeToAdjacency(adj, e) ==
    LET fwd == [adj EXCEPT ![e.start] = Append(@, <<e.end, e.weight>>)]
    IN  IF e.bidirectional
        THEN [fwd EXCEPT ![e.end] = Append(@, <<e.start, e.weight>>)]
        ELSE fwd

RECURSIVE AddEdges(_, _, _)
AddEdges(adj, es, i) ==
    IF i > Len(es) THEN adj ELSE AddEdges(AddEdgeToAdjacency(adj, es[i]), es, i + 1)

BuildAdjacencyList(ns, es) == AddEdges([n \in ns |-> << >>], es, 1)

(***************************************************************************)
(* _build_weight_matrix and _floyd_warshall.  Indices are 0..n-1.          *)
(***************************************************************************)
NodeIndexMap(ns) ==
    LET s == Sorted(ns) IN [n \in ns |-> (CHOOSE i \in 1..Len(s) : s[i] = n) - 1]

InitialMatrix(n) ==
    [i \in 0..(n - 1) |-> [j \in 0..(n - 1) |-> IF i = j THEN 0 ELSE Inf]]

FillEdge(m, idx, e) ==
    LET fwd == [m EXCEPT ![idx[e.start]][idx[e.end]] = e.weight]
    IN  IF e.bidirectional
        THEN [fwd EXCEPT ![idx[e.end]][idx[e.start]] = e.weight]
        ELSE fwd

RECURSIVE FillEdges(_, _, _, _)
FillEdges(m, idx, es, i) ==
    IF i > Len(es) THEN m ELSE FillEdges(FillEdge(m, idx, es[i]), idx, es, i + 1)

EdgeMatrix(ns, es) == FillEdges(InitialMatrix(Cardinality(ns)), NodeIndexMap(ns), es, 1)

\* The test of the innermost loop body.
Improves(m, k, i, j) == Less(Plus(m[i][k], m[k][j]), m[i][j])

\* The triple loop, in the order k, i, j; t counts its iterations.
RECURSIVE FloydLoop(_, _, _)
FloydLoop(m, n, t) ==
    IF t >= n * n * n THEN m
    ELSE LET k == t \div (n * n)
             i == (t \div n) % n
             j == t % n
         IN  IF Improves(m, k, i, j)
             THEN FloydLoop([m EXCEPT ![i][j] = Plus(m[i][k], m[k][j])], n, t + 1)
             ELSE FloydLoop(m, n, t + 1)

FloydWarshall(m, n) == FloydLoop(m, n, 0)

BuildWeightMatrix(ns, es) == FloydWarshall(EdgeMatrix(ns, es), Cardinality(ns))

\* get_distance.
GetDistanceOf(idx, m, s, e) ==
    IF s \notin DOMAIN idx \/ e \notin DOMAIN idx THEN Inf ELSE m[idx[s]][idx[e]]

(***************************************************************************)
(* find_path: Dijkstra over the adjacency index.  order is the iteration   *)
(* order of set(self.nodes.keys()), which min() follows: among the         *)
(* unvisited nodes of least tentative distance it returns the first met.   *)
(***************************************************************************)
Position(order, n) == CHOOSE i \in 1..Len(order) : order[i] = n

MinNode(unvisited, dist, order) ==
    LET least == {n \in unvisited : \A m \in unvisited : ~Less(dist[m], dist[n])}
    IN  CHOOSE n \in least : \A m \in least : Position(order, n) <= Position(order, m)

\* Variant: a neighbour's tentative distance is set once and never improved.
RECURSIVE RelaxNeighborsOnce(_, _, _, _, _)
RelaxNeighborsOnce(st, nbrs, i, current, unvisited) ==
    IF i > Len(nbrs) THEN st
    ELSE LET neighbor == nbrs[i][1]
             new_distance == Plus(st.distances[current], nbrs[i][2])
         IN  IF neighbor \in unvisited /\ st.distances[neighbor] = Inf
             THEN RelaxNeighborsOnce(
                      [distances |-> [st.distances EXCEPT ![neighbor] = new_distance],
                       previous |-> [st.previous EXCEPT ![neighbor] = current]],
                      nbrs, i + 1, current, unvisited)
             ELSE RelaxNeighborsOnce(st, nbrs, i + 1, current, unvisited)

\* The loop over self.adjacency[current].
RECURSIVE RelaxNeighbors(_, _, _, _, _)
RelaxNeighbors(st, nbrs, i, current, unvisited) ==
    IF i > Len(nbrs) THEN st
    ELSE LET neighbor == nbrs[i][1]
             new_distance == Plus(st.distances[current], nbrs[i][2])
         IN  IF neighbor \in unvisited /\ Less(new_distance, st.distances[neighbor])
             THEN RelaxNeighbors(
                      [distances |-> [st.distances EXCEPT ![neighbor] = new_distance],
                       previous |-> [st.previous EXCEPT ![neighbor] = current]],
                      nbrs, i + 1, current, unvisited)
             ELSE RelaxNeighbors(st, nbrs, i + 1, current, unvisited)

RECURSIVE DijkstraLoop(_, _, _, _, _)
DijkstraLoop(adj, order, end_id, unvisited, st) ==
    IF unvisited = {} THEN st
    ELSE LET current == MinNode(unvisited, st.distances, order)
         IN  IF st.distances[current] = Inf THEN st
             ELSE IF current = end_id THEN st
             ELSE DijkstraLoop(adj, order, end_id, unvisited \ {current},
                      RelaxNeighbors(st, adj[current], 1, current,
                                     unvisited \ {current}))

RECURSIVE WalkBack(_, _)
WalkBack(previous, current) ==
    IF current = NoneId THEN << >>
    ELSE Append(WalkBack(previous, previous[current]), current)

FindPath(ns, adj, order, start_id, end_id) ==
    IF start_id \notin ns \/ end_id \notin ns THEN NoPath
    ELSE IF start_id = end_id THEN <<start_id>>
    ELSE LET st == DijkstraLoop(adj, order, end_id, ns,
                       [distances |-> [n \in ns |-> IF n = start_id THEN 0 ELSE Inf],
                        previous |-> [n \in ns |-> NoneId]])
         IN  IF st.distances[end_id] = Inf THEN NoPath
             ELSE WalkBack(st.previous, end_id)

\* The iteration orders a set of the node ids can have.
Orders(ns) ==
    {o \in [1..Cardinality(ns) -> ns] : \A i, j \in DOMAIN o : o[i] = o[j] => i = j}

(***************************************************************************)
(* get_path_instructions.                                                  *)
(***************************************************************************)
EdgeMatches(e, current_id, next_id) ==
    \/ e.start = current_id /\ e.end = next_id
    \/ e.bidirectional /\ e.start = next_id /\ e.end = current_id

EdgeDistance(es, idx, m, current_id, next_id) ==
    LET hits == {i \in 1..Len(es) : EdgeMatches(es[i], current_id, next_id)}
    IN  IF hits = {} THEN GetDistanceOf(idx, m, current_id, next_id)
        ELSE es[CHOOSE i \in hits : \A j \in hits : i <= j].distance

RECURSIVE InstructionLoop(_, _, _, _, _, _, _)
InstructionLoop(es, idx, m, path, i, total_distance, instructions) ==
    IF i > Len(path) - 1 THEN instructions
    ELSE LET edge_distance == EdgeDistance(es, idx, m, path[i], path[i + 1])
             total == Plus(total_distance, edge_distance)
         IN  InstructionLoop(es, idx, m, path, i + 1, total,
                 Append(instructions,
                        [from |-> path[i], to |-> path[i + 1],
                         distance |-> edge_distance,
                         cumulative_distance |-> total]))

GetPathInstructions(es, idx, m, path) ==
    IF Len(path) < 2 THEN << >>
    ELSE InstructionLoop(es, idx, m, path, 1, 0, << >>)

(***************************************************************************)
(* _load_pois_and_rooms.  vertex_id.split(';') cuts the string at every    *)
(* separator; an empty string gives no access node at all.                 *)
(***************************************************************************)
RECURSIVE SplitFrom(_, _, _, _)
SplitFrom(v, i, token, acc) ==
    IF i > Len(v) THEN Append(acc, token)
    ELSE IF v[i] = ";" THEN SplitFrom(v, i + 1, "", Append(acc, token))
    ELSE SplitFrom(v, i + 1, v[i], acc)

AccessNodes(v) == IF v = << >> THEN << >> ELSE SplitFrom(v, 1, "", << >>)

Put(d, k, x) == [i \in DOMAIN d \cup {k} |-> IF i = k THEN x ELSE d[i]]

RECURSIVE LoadPois(_, _, _)
LoadPois(fs, i, acc) ==
    IF i > Len(fs) THEN acc
    ELSE IF fs[i].type \in PoiTypes
         THEN LoadPois(fs, i + 1,
                  Put(acc, fs[i].id, [type |-> fs[i].type,
                                      access_nodes |-> AccessNodes(fs[i].vertex_id)]))
    ELSE LoadPois(fs, i + 1, acc)

RECURSIVE LoadRooms(_, _, _)
LoadRooms(fs, i, acc) ==
    IF i > Len(fs) THEN acc
    ELSE IF fs[i].type = "room"
         THEN LoadRooms(fs, i + 1,
                  Put(acc, fs[i].id, [access_nodes |-> AccessNodes(fs[i].vertex_id)]))
    ELSE LoadRooms(fs, i + 1, acc)

(***************************************************************************)
(* _resolve_location and navigate.                                         *)
(***************************************************************************)
\* Variant: the POI table is consulted before the node set.
ResolveLocationPoiFirst(ns, ps, rs, location) ==
    IF location \in DOMAIN ps /\ ps[location].access_nodes # << >>
         THEN ps[location].access_nodes[1]
    ELSE IF location \in ns THEN location
    ELSE IF location \in DOMAIN rs /\ rs[location].access_nodes # << >>
         THEN rs[location].access_nodes[1]
    ELSE NoneId

\* Variant: the last access node listed is used.
ResolveLocationLastAccess(ns, ps, rs, location) ==
    IF location \in ns THEN location
    ELSE IF location \in DOMAIN ps /\ ps[location].access_nodes # << >>
         THEN ps[location].access_nodes[Len(ps[location].access_nodes)]
    ELSE IF location \in DOMAIN rs /\ rs[location].access_nodes # << >>
         THEN rs[location].access_nodes[Len(rs[location].access_nodes)]
    ELSE NoneId

\* Variant: a POI that matches decides alone, the room is not tried after it.
ResolveLocationNoFallThrough(ns, ps, rs, location) ==
    IF location \in ns THEN location
    ELSE IF location \in DOMAIN ps
         THEN IF ps[location].access_nodes # << >>
              THEN ps[location].access_nodes[1] ELSE NoneId
    ELSE IF location \in DOMAIN rs /\ rs[location].access_nodes # << >>
         THEN rs[location].access_nodes[1]
    ELSE NoneId

ResolveLocation(ns, ps, rs, location) ==
    IF location \in ns THEN location
    ELSE IF location \in DOMAIN ps /\ ps[location].access_nodes # << >>
         THEN ps[location].access_nodes[1]
    ELSE IF location \in DOMAIN rs /\ rs[location].access_nodes # << >>
         THEN rs[location].access_nodes[1]
    ELSE NoneId

\* "not x" of a resolved location: None and the empty string are both falsy.
Falsy(x) == x = NoneId \/ x = ""

NoRoute ==
    [found |-> FALSE, start_node |-> NoneId, end_node |-> NoneId, path |-> NoPath,
     distance |-> 0, instructions |-> << >>, num_steps |-> 0]

Navigate(ns, es, adj, idx, m, ps, rs, order, start, end) ==
    LET start_node == ResolveLocation(ns, ps, rs, start)
        end_node == ResolveLocation(ns, ps, rs, end)
    IN  IF Falsy(start_node) \/ Falsy(end_node) THEN NoRoute
        ELSE LET path == FindPath(ns, adj, order, start_node, end_node)
             IN  IF path = NoPath THEN NoRoute
                 ELSE LET instructions == GetPathInstructions(es, idx, m, path)
                      IN  [found |-> TRUE, start_node |-> start_node,
                           end_node |-> end_node, path |-> path,
                           distance |-> GetDistanceOf(idx, m, start_node, end_node),
                           instructions |-> instructions,
                           num_steps |-> Len(instructions)]

(***************************************************************************)
(* get_nearby_pois.  The POI table is a dict: items() visits its keys in   *)
(* the order of their first insertion, and list.sort is stable.            *)
(***************************************************************************)
Range(s) == {s[i] : i \in DOMAIN s}

RECURSIVE PoiKeys(_, _, _)
PoiKeys(fs, i, acc) ==
    IF i > Len(fs) THEN acc
    ELSE IF fs[i].type \in PoiTypes /\ fs[i].id \notin Range(acc)
         THEN PoiKeys(fs, i + 1, Append(acc, fs[i].id))
    ELSE PoiKeys(fs, i + 1, acc)

\* Variant: the distance of a POI is not compared with max_distance.
NearbyLoopNoLimit(ns, idx, m, ps, rs, keys, i, start_node, max_distance, nearby) ==
    LET Collect[j \in 1..(Len(keys) + 1)] ==
            IF j > Len(keys) THEN << >>
            ELSE LET poi_node == ResolveLocation(ns, ps, rs, keys[j])
                 IN  IF poi_node = NoneId \/ poi_node = "" THEN Collect[j + 1]
                     ELSE <<[id |-> keys[j], type |-> ps[keys[j]].type,
                             distance |-> GetDistanceOf(idx, m, start_node, poi_node)]>>
                          \o Collect[j + 1]
    IN  nearby \o Collect[i]

RECURSIVE NearbyLoop(_, _, _, _, _, _, _, _, _, _)
NearbyLoop(ns, idx, m, ps, rs, keys, i, start_node, max_distance, nearby) ==
    IF i > Len(keys) THEN nearby
    ELSE LET poi_id == keys[i]
             poi_node == ResolveLocation(ns, ps, rs, poi_id)
         IN  IF Falsy(poi_node)
             THEN NearbyLoop(ns, idx, m, ps, rs, keys, i + 1, start_node,
                             max_distance, nearby)
             ELSE LET distance == GetDistanceOf(idx, m, start_node, poi_node)
                  IN  IF distance <= max_distance
                      THEN NearbyLoop(ns, idx, m, ps, rs, keys, i + 1, start_node,
                               max_distance,
                               Append(nearby, [id |-> poi_id, type |-> ps[poi_id].type,
                                               distance |-> distance]))
                      ELSE NearbyLoop(ns, idx, m, ps, rs, keys, i + 1, start_node,
                               max_distance, nearby)

\* x goes behind every entry that is not farther than x: the sort is stable.
RECURSIVE InsertByDistance(_, _, _)
InsertByDistance(sorted, x, i) ==
    IF i > Len(sorted) THEN Append(sorted, x)
    ELSE IF x.distance < sorted[i].distance
         THEN SubSeq(sorted, 1, i - 1) \o <<x>> \o SubSeq(sorted, i, Len(sorted))
    ELSE InsertByDistance(sorted, x, i + 1)

RECURSIVE SortByDistance(_, _, _)
SortByDistance(nearby, i, sorted) ==
    IF i > Len(nearby) THEN sorted
    ELSE SortByDistance(nearby, i + 1, InsertByDistance(sorted, nearby[i], 1))

GetNearbyPoisOf(ns, idx, m, ps, rs, keys, location, max_distance) ==
    LET start_node == ResolveLocation(ns, ps, rs, location)
    IN  IF Falsy(start_node) THEN << >>
        ELSE SortByDistance(
                 NearbyLoop(ns, idx, m, ps, rs, keys, 1, start_node, max_distance,
                            << >>),
                 1, << >>)

(***************************************************************************)
(* Input collections.                                                      *)
(***************************************************************************)
SeqsUpTo(S, n) == UNION {[1..k -> S] : k \in 0..n}

Weights == 0..MaxWeight

GraphPoints == <<PointF("a1"), PointF("a2"), PointF("b1")>>

EdgePairs ==
    {<<"a1", "a2">>, <<"a2", "b1">>, <<"a1", "b1">>, <<"a1", "a1">>}

EdgeUniverse ==
    {EdgeF(p[1], p[2], w, b) : p \in EdgePairs, w \in Weights, b \in BOOLEAN}

\* Edges whose weight property overrides the distance.
OverrideUniverse ==
    {EdgeWF("a1", "a2", d, b, w) : d \in Weights, w \in Weights, b \in BOOLEAN}

\* The scenario of the specification: a1 - a2 both ways, a2 -> b1 one way.
ScenarioFeatures ==
    GraphPoints \o <<EdgeF("a1", "a2", 10, TRUE), EdgeF("a2", "b1", 10, FALSE)>>

\* Two routes of equal weight from a1 to b2, through a2 and through b1.
DiamondFeatures ==
    <<PointF("a1"), PointF("a2"), PointF("b1"), PointF("b2"),
      EdgeF("a1", "a2", 1, TRUE), EdgeF("a1", "b1", 1, TRUE),
      EdgeF("a2", "b2", 1, TRUE), EdgeF("b1", "b2", 1, TRUE)>>

\* A direct edge a1 - b1 beside the route through a2.
TriangleInputs ==
    {GraphPoints \o <<EdgeF("a1", "b1", x, TRUE), EdgeF("a1", "a2", y, TRUE),
                      EdgeF("a2", "b1", z, b)>> :
         x \in 0..(MaxWeight + 1), y \in Weights, z \in Weights, b \in BOOLEAN}

GraphInputs ==
    {GraphPoints \o es : es \in SeqsUpTo(EdgeUniverse, MaxEdges)}
    \cup {GraphPoints \o <<o>> \o es :
              o \in OverrideUniverse, es \in SeqsUpTo(EdgeUniverse, 1)}
    \cup TriangleInputs
    \cup {ScenarioFeatures, DiamondFeatures}

\* Node and edge records in any order, some edges with a missing or unknown
\* endpoint.
LoadUniverse ==
    {PointF("a1"), PointF("a2"), PointF(""), OtherF,
     EdgeF("a1", "a2", 1, TRUE), EdgeF("a1", "c9", 1, TRUE),
     EdgeF("c9", "a2", 1, FALSE), EdgeF("", "a2", 1, TRUE),
     EdgeF("a1", "", 1, FALSE)}

LoadInputs == SeqsUpTo(LoadUniverse, MaxFeatures)

\* vertex_id strings: identifiers separated by ";".
VertexIds ==
    {v \in SeqsUpTo({"a1", "a2", ";"}, MaxVertexLen) :
        \A i \in 1..(Len(v) - 1) : v[i] = ";" \/ v[i + 1] = ";"}

SemanticIds == {"r1", "a1"}

\* One or two navigation nodes, then at most one POI and at most one room.
ResolveInputs ==
    {g \o x \o y :
        g \in {<<PointF("a1")>>,
               <<PointF("a1"), PointF("a2"), EdgeF("a1", "a2", 1, TRUE)>>},
        x \in {<< >>} \cup {<<SemF("poi", id, v)>> : id \in SemanticIds, v \in VertexIds},
        y \in {<< >>} \cup {<<SemF("room", id, v)>> : id \in SemanticIds, v \in VertexIds}}

\* POIs at a1, a2 and b1, one without access nodes, one whose
\* access node is no navigation node, one whose vertex_id starts with ";",
\* one that carries the identifier of a navigation node.
PoiUniverse ==
    {SemF("elevator", "r1", <<"b1">>), SemF("poi", "r1", << >>),
     SemF("poi", "r1", <<"c9">>), SemF("poi", "r1", <<";", "a1">>),
     SemF("stair", "r2", <<"a1">>), SemF("poi", "r2", <<"a2", ";", "a1">>),
     SemF("poi", "a1", <<"b1">>)}

\* a1 - a2 both ways, a2 -> b1 one way.
NearbyGraphs ==
    {GraphPoints \o <<EdgeF("a1", "a2", 1, TRUE), EdgeF("a2", "b1", w, FALSE)>> :
         w \in Weights}

NearbyInputs ==
    {g \o ps \o r :
        g \in NearbyGraphs,
        ps \in SeqsUpTo(PoiUniverse, MaxPois),
        r \in {<< >>, <<SemF("room", "r1", <<"a2">>)>>}}

MaxDistances == (0..(MaxWeight + 1)) \cup {Inf}

(***************************************************************************)
(* The state machine.  The constructors run their steps in order; queries  *)
(* are answered once both objects are built.                               *)
(***************************************************************************)
NoResult == [op |-> "none", max_distance |-> 0, a |-> "", b |-> "", path |-> << >>, value |-> 0]

Blank(fs) ==
    /\ features = fs
    /\ pc = "start"
    /\ nodes = {}
    /\ edges = << >>
    /\ adjacency = << >>
    /\ node_index_map = << >>
    /\ weight_matrix = << >>
    /\ pois = << >>
    /\ rooms = << >>
    /\ result = NoResult

Init == \E fs \in GraphInputs : Blank(fs)
InitLoad == \E fs \in LoadInputs : Blank(fs)
InitResolve == \E fs \in ResolveInputs : Blank(fs)
InitNearby == \E fs \in NearbyInputs : Blank(fs)

LoadFromGeojson ==
    /\ pc = "start"
    /\ nodes' = LoadNodes(features, 1, {})
    /\ edges' = LoadEdges(features, 1, nodes', << >>)
    /\ pc' = "loaded"
    /\ UNCHANGED <<features, adjacency, node_index_map, weight_matrix, pois,
                   rooms, result>>

BuildAdjacency ==
    /\ pc = "loaded"
    /\ adjacency' = BuildAdjacencyList(nodes, edges)
    /\ pc' = "adjacency"
    /\ UNCHANGED <<features, nodes, edges, node_index_map, weight_matrix, pois,
                   rooms, result>>

BuildMatrix ==
    /\ pc = "adjacency"
    /\ node_index_map' = NodeIndexMap(nodes)
    /\ weight_matrix' = BuildWeightMatrix(nodes, edges)
    /\ pc' = "graph"
    /\ UNCHANGED <<features, nodes, edges, adjacency, pois, rooms, result>>

LoadPoisAndRooms ==
    /\ pc = "graph"
    /\ pois' = LoadPois(features, 1, << >>)
    /\ rooms' = LoadRooms(features, 1, << >>)
    /\ pc' = "ready"
    /\ UNCHANGED <<features, nodes, edges, adjacency, node_index_map,
                   weight_matrix, result>>

\* Arguments of the queries: the identifiers the load knows, and an unknown one.
Known == nodes \cup DOMAIN pois \cup DOMAIN rooms
QueryIds == Known \cup {"zz"}
QueryPairs == (Known \X Known) \cup {<<"zz", "a1">>, <<"a1", "zz">>}
QueryPaths == SeqsUpTo(nodes, 2) \cup {<<"a1", "zz">>}

\* Variant: answering a query leaves the matrix as the edges filled it.
FrameResetsMatrix ==
    /\ pc' = "answered"
    /\ weight_matrix' = EdgeMatrix(nodes, edges)
    /\ UNCHANGED <<features, nodes, edges, adjacency, node_index_map, pois, rooms>>

\* A query runs to completion and hands its value to the caller.
Frame ==
    /\ pc' = "answered"
    /\ UNCHANGED <<features, nodes, edges, adjacency, node_index_map,
                   weight_matrix, pois, rooms>>

GetDistance ==
    /\ pc = "ready"
    /\ \E q \in QueryPairs :
          result' = [op |-> "get_distance", max_distance |-> 0, a |-> q[1], b |-> q[2], path |-> << >>,
                     value |-> GetDistanceOf(node_index_map, weight_matrix, q[1], q[2])]
    /\ Frame

FindPathQuery ==
    /\ pc = "ready"
    /\ \E q \in QueryPairs, order \in Orders(nodes) :
          result' = [op |-> "find_path", max_distance |-> 0, a |-> q[1], b |-> q[2], path |-> << >>,
                     value |-> FindPath(nodes, adjacency, order, q[1], q[2])]
    /\ Frame

PathInstructions ==
    /\ pc = "ready"
    /\ \E path \in QueryPaths :
          result' = [op |-> "get_path_instructions", max_distance |-> 0, a |-> "", b |-> "", path |-> path,
                     value |-> GetPathInstructions(edges, node_index_map,
                                                   weight_matrix, path)]
    /\ Frame

Resolve ==
    /\ pc = "ready"
    /\ \E x \in QueryIds :
          result' = [op |-> "resolve", max_distance |-> 0, a |-> x, b |-> "", path |-> << >>,
                     value |-> ResolveLocation(nodes, pois, rooms, x)]
    /\ Frame

NavigateQuery ==
    /\ pc = "ready"
    /\ \E q \in QueryPairs, order \in Orders(nodes) :
          result' = [op |-> "navigate", max_distance |-> 0, a |-> q[1], b |-> q[2], path |-> << >>,
                     value |-> Navigate(nodes, edges, adjacency, node_index_map,
                                        weight_matrix, pois, rooms, order, q[1], q[2])]
    /\ Frame

GetNearbyPois ==
    /\ pc = "ready"
    /\ \E x \in QueryIds, d \in MaxDistances :
          result' = [op |-> "get_nearby_pois", max_distance |-> d, a |-> x, b |-> "",
                     path |-> << >>,
                     value |-> GetNearbyPoisOf(nodes, node_index_map, weight_matrix,
                                               pois, rooms, PoiKeys(features, 1, << >>),
                                               x, d)]
    /\ Frame

\* The caller takes the value; the next query can be made.
Return ==
    /\ pc = "answered"
    /\ pc' = "ready"
    /\ result' = NoResult
    /\ UNCHANGED <<features, nodes, edges, adjacency, node_index_map,
                   weight_matrix, pois, rooms>>

Next ==
    \/ LoadFromGeojson
    \/ BuildAdjacency
    \/ BuildMatrix
    \/ LoadPoisAndRooms
    \/ GetDistance
    \/ FindPathQuery
    \/ PathInstructions
    \/ Resolve
    \/ NavigateQuery
    \/ GetNearbyPois
    \/ Return

Spec == Init /\ [][Next]_vars
SpecLoad == InitLoad /\ [][Next]_vars
SpecResolve == InitResolve /\ [][Next]_vars
SpecNearby == InitNearby /\ [][Next]_vars

(***************************************************************************)
(* Properties.                                                             *)
(***************************************************************************)
Answered(op) == pc = "answered" /\ result.op = op

\* The weights the adjacency index lists for the hop u -> v.
HopWeights(adj, u, v) == {adj[u][k][2] : k \in {k \in DOMAIN adj[u] : adj[u][k][1] = v}}

Least(S) == CHOOSE x \in S : \A y \in S : x <= y

IsWalk(adj, w) ==
    \A i \in 1..(Len(w) - 1) : HopWeights(adj, w[i], w[i + 1]) # {}

RECURSIVE WalkWeight(_, _)
WalkWeight(adj, w) ==
    IF Len(w) < 2 THEN 0
    ELSE Least(HopWeights(adj, w[1], w[2])) + WalkWeight(adj, Tail(w))

\* The walks from s to e with at most as many hops as there are nodes.
Walks(ns, adj, s, e) ==
    {w \in UNION {[1..k -> ns] : k \in 1..(Cardinality(ns) + 1)} :
        w[1] = s /\ w[Len(w)] = e /\ IsWalk(adj, w)}

\* C1: find_path(s, e) between two nodes returns a walk from s to e over the
\* adjacency index of least total weight, and returns no path exactly when
\* there is no walk from s to e.
C1_FindPathShortest ==
    (Answered("find_path") /\ result.a \in nodes /\ result.b \in nodes) =>
        LET W == Walks(nodes, adjacency, result.a, result.b)
        IN  IF result.value = NoPath THEN W = {}
            ELSE /\ result.value \in W
                 /\ \A w \in W : WalkWeight(adjacency, result.value)
                                     <= WalkWeight(adjacency, w)

\* A two-hop path was returned where a direct edge of strictly greater weight
\* joins the same two nodes.
C1_Witness ==
    /\ Answered("find_path")
    /\ Len(result.value) = 3
    /\ \E w \in Walks(nodes, adjacency, result.a, result.b) :
          /\ Len(w) = 2
          /\ WalkWeight(adjacency, w) > WalkWeight(adjacency, result.value)

\* C2: the distance matrix gives, for every pair with a path, the weight of the
\* path find_path returns, and is infinite exactly when find_path has no path.
\* Stated here for pairs of distinct nodes (the diagonal is C4's subject).
C2_MatrixAgreesWithPath ==
    (Answered("find_path") /\ result.a \in nodes /\ result.b \in nodes
         /\ result.a # result.b) =>
        LET d == GetDistanceOf(node_index_map, weight_matrix, result.a, result.b)
        IN  /\ (result.value = NoPath) <=> (d = Inf)
            /\ result.value # NoPath => d = WalkWeight(adjacency, result.value)

\* The edge list without its i-th edge.
Without(es, i) == [k \in 1..(Len(es) - 1) |-> IF k < i THEN es[k] ELSE es[k + 1]]

OneWayEdges(A, B) ==
    {i \in DOMAIN edges : edges[i].start = A /\ edges[i].end = B /\ A # B
                          /\ ~edges[i].bidirectional}

\* seq with x inserted at position k.
InsertAt(seq, k, x) == SubSeq(seq, 1, k - 1) \o <<x>> \o SubSeq(seq, k, Len(seq))

\* C3: a one-way edge from A to B adds (B, w) under A in the adjacency index and
\* nothing under B, and leaves the initial matrix entry [B][A] alone;
\* get_distance(B, A) and find_path(B, A) are what the graph without that edge
\* gives.  In the scenario a1 <-> a2 (10), a2 -> b1 (10): find_path(a1, b1) is
\* a1, a2, b1 with distance 20; find_path(b1, a1) has no path and
\* get_distance(b1, a1) is infinite.
C3_OneWayEdge ==
    /\ pc = "adjacency" =>
          \A A \in nodes, B \in nodes : \A i \in OneWayEdges(A, B) :
              LET rest == BuildAdjacencyList(nodes, Without(edges, i))
                  idx == NodeIndexMap(nodes)
              IN  /\ adjacency[B] = rest[B]
                  /\ \E k \in 1..(Len(rest[A]) + 1) :
                        adjacency[A] = InsertAt(rest[A], k, <<B, edges[i].weight>>)
                  /\ EdgeMatrix(nodes, edges)[idx[B]][idx[A]]
                        = EdgeMatrix(nodes, Without(edges, i))[idx[B]][idx[A]]
    /\ Answered("get_distance") =>
          \A i \in OneWayEdges(result.b, result.a) :
              result.value = GetDistanceOf(node_index_map,
                                 BuildWeightMatrix(nodes, Without(edges, i)),
                                 result.a, result.b)
    /\ Answered("find_path") =>
          \A i \in OneWayEdges(result.b, result.a) :
              LET rest == BuildAdjacencyList(nodes, Without(edges, i))
              IN  /\ \A o \in Orders(nodes) :
                        FindPath(nodes, adjacency, o, result.a, result.b)
                            = FindPath(nodes, rest, o, result.a, result.b)
                  /\ \E o \in Orders(nodes) :
                        result.value = FindPath(nodes, rest, o, result.a, result.b)
    /\ features = ScenarioFeatures =>
          /\ (Answered("find_path") /\ result.a = "a1" /\ result.b = "b1")
                 => result.value = <<"a1", "a2", "b1">>
          /\ (Answered("get_distance") /\ result.a = "a1" /\ result.b = "b1")
                 => result.value = 20
          /\ (Answered("find_path") /\ result.a = "b1" /\ result.b = "a1")
                 => result.value = NoPath
          /\ (Answered("get_distance") /\ result.a = "b1" /\ result.b = "a1")
                 => result.value = Inf

\* The scenario's return trip, blocked by the one-way edge a2 -> b1.
C3_Witness ==
    /\ features = ScenarioFeatures
    /\ Answered("find_path") /\ result.a = "b1" /\ result.b = "a1"
    /\ OneWayEdges("a2", "b1") # {}
    /\ result.value = NoPath

\* C4: get_distance(n, n) is 0 for every node n, whatever edges were loaded.
C4_DiagonalZero ==
    (Answered("get_distance") /\ result.a \in nodes /\ result.a = result.b)
        => result.value = 0

\* The 'point' ids of the input and the input positions of its acceptable edges.
PointIds == {features[i].id : i \in {i \in DOMAIN features : features[i].type = "point"}}

GoodEdgeAt ==
    {i \in DOMAIN features :
        /\ features[i].type = "edge"
        /\ features[i].start_node # "" /\ features[i].end_node # ""
        /\ features[i].start_node \in PointIds /\ features[i].end_node \in PointIds}

Rank(i) == Cardinality({j \in GoodEdgeAt : j <= i})

\* C5: after the load every edge of the edge list has non-empty endpoints that
\* are node ids; the edge list holds exactly the edge records with both
\* endpoints present and known, in input order, wherever the node records stand
\* in the input; the node set is exactly the ids of the 'point' records.
C5_LoadKeepsValidEdges ==
    pc # "start" =>
        /\ nodes = PointIds
        /\ \A k \in DOMAIN edges :
              /\ edges[k].start # "" /\ edges[k].end # ""
              /\ edges[k].start \in nodes /\ edges[k].end \in nodes
        /\ Len(edges) = Cardinality(GoodEdgeAt)
        /\ \A i \in GoodEdgeAt :
              /\ edges[Rank(i)].start = features[i].start_node
              /\ edges[Rank(i)].end = features[i].end_node

\* An edge record standing before one of its endpoint nodes was accepted.
C5_Witness ==
    /\ pc = "loaded"
    /\ Len(edges) = 1
    /\ \E i \in GoodEdgeAt, j \in DOMAIN features :
          /\ i < j
          /\ features[j].type = "point"
          /\ features[j].id = features[i].end_node

\* C6: resolving an identifier that is a node id returns it unchanged, also
\* when a POI or a room of that identifier lists other access nodes.
C6_NodeIdResolvesToItself ==
    (Answered("resolve") /\ result.a \in nodes) => result.value = result.a

\* A node id that is also a POI id whose first access node is another id.
C6_Witness ==
    /\ Answered("resolve")
    /\ result.a \in nodes
    /\ result.a \in DOMAIN pois
    /\ pois[result.a].access_nodes # << >>
    /\ pois[result.a].access_nodes[1] # result.a

\* C7: _resolve_location returns either no node or a node id of the graph.
C7_ResolvesToNode ==
    Answered("resolve") => (result.value = NoneId \/ result.value \in nodes)

\* The vertex_id string of the last record of the given types with this id
\* (a later record of the same id replaces an earlier one); empty if none.
VertexIdOf(types, id) ==
    LET at == {i \in DOMAIN features : features[i].type \in types /\ features[i].id = id}
    IN  IF at = {} THEN << >>
        ELSE features[CHOOSE i \in at : \A j \in at : j <= i].vertex_id

\* What a vertex_id string lists first: its text before the first separator.
FirstListed(v) == IF v[1] = ";" THEN "" ELSE v[1]

\* C8: an identifier that is no node id and names a POI or a room whose
\* vertex_id lists access nodes resolves to the first one listed; the POI's
\* when both list some.
C8_FirstAccessNode ==
    (Answered("resolve") /\ result.a \notin nodes) =>
        LET pv == VertexIdOf(PoiTypes, result.a)
            rv == VertexIdOf({"room"}, result.a)
        IN  /\ pv # << >> => result.value = FirstListed(pv)
            /\ (pv = << >> /\ rv # << >>) => result.value = FirstListed(rv)
            /\ (features[Len(features)] = SemF("room", "r1", <<"a1", ";", "a2">>)
                    /\ result.a = "r1" /\ pv = << >>) => result.value = "a1"

\* Room r1 with vertex_id "a1;a2", asked for by its id.
C8_Witness ==
    /\ Answered("resolve")
    /\ result.a = "r1"
    /\ "r1" \notin DOMAIN pois
    /\ VertexIdOf({"room"}, "r1") = <<"a1", ";", "a2">>
    /\ result.value = "a1"

\* C9 as claimed: an identifier that is no node id and matches a POI is decided
\* by that POI alone: its first access node, or no node when it lists none.
C9_PoiDecidesAlone ==
    (Answered("resolve") /\ result.a \notin nodes /\ result.a \in DOMAIN pois) =>
        result.value = IF pois[result.a].access_nodes # << >>
                       THEN pois[result.a].access_nodes[1]
                       ELSE NoneId

HasAccess(table, id) == id \in DOMAIN table /\ table[id].access_nodes # << >>

\* C9: an identifier that is no node id resolves to the first access node of
\* the POI it names when that POI lists one; otherwise (no such POI, or a POI
\* listing none) to the first access node of the room it names when that room
\* lists one; otherwise to no node.
C9_PoiThenRoom ==
    (Answered("resolve") /\ result.a \notin nodes) =>
        result.value =
            IF HasAccess(pois, result.a) THEN pois[result.a].access_nodes[1]
            ELSE IF HasAccess(rooms, result.a) THEN rooms[result.a].access_nodes[1]
            ELSE NoneId

\* A POI listing no access node, and a room of the same id that lists one.
C9_Witness ==
    /\ Answered("resolve")
    /\ result.a \notin nodes
    /\ result.a \in DOMAIN pois
    /\ pois[result.a].access_nodes = << >>
    /\ HasAccess(rooms, result.a)
    /\ result.value = rooms[result.a].access_nodes[1]

RECURSIVE SumDistances(_, _)
SumDistances(steps, k) ==
    IF k = 0 THEN 0 ELSE Plus(SumDistances(steps, k - 1), steps[k].distance)

\* C10: a route of navigate with a path of two or more nodes has one step per
\* consecutive pair of the path, non-decreasing cumulative distances, each the
\* sum of the step distances so far, the last equal to the route's distance.
C10_CumulativeMatchesTotal ==
    (Answered("navigate") /\ result.value.found /\ Len(result.value.path) >= 2) =>
        LET steps == result.value.instructions
        IN  /\ Len(steps) = Len(result.value.path) - 1
            /\ \A k \in DOMAIN steps :
                  /\ steps[k].from = result.value.path[k]
                  /\ steps[k].to = result.value.path[k + 1]
                  /\ steps[k].cumulative_distance = SumDistances(steps, k)
                  /\ k > 1 => steps[k - 1].cumulative_distance
                                  <= steps[k].cumulative_distance
            /\ steps[Len(steps)].cumulative_distance = result.value.distance

\* The POIs that resolve and lie within d of the node s, by the distance matrix.
NearbyIds(s, d) ==
    {p \in DOMAIN pois :
        LET n == ResolveLocation(nodes, pois, rooms, p)
        IN  ~Falsy(n) /\ GetDistanceOf(node_index_map, weight_matrix, s, n) <= d}

\* C11: for a location that resolves to a node s and any max_distance,
\* get_nearby_pois returns exactly the POIs whose resolved access node p has
\* get_distance(s, p) <= max_distance, each once and with that distance, in
\* ascending order of distance; for a location that does not resolve it
\* returns the empty list.
C11_NearbyPois ==
    Answered("get_nearby_pois") =>
        LET s == ResolveLocation(nodes, pois, rooms, result.a)
            d == result.max_distance
            r == result.value
        IN  /\ s \in nodes =>
                /\ {r[i].id : i \in DOMAIN r} = NearbyIds(s, d)
                /\ Len(r) = Cardinality(NearbyIds(s, d))
                /\ \A i \in DOMAIN r :
                       r[i].distance =
                           GetDistanceOf(node_index_map, weight_matrix, s,
                                         ResolveLocation(nodes, pois, rooms, r[i].id))
                /\ \A i, j \in DOMAIN r : i < j => r[i].distance <= r[j].distance
            /\ Falsy(s) => r = << >>

\* Two POIs are returned nearest first, against the order of the POI table,
\* under a finite max_distance.
C11_Witness ==
    /\ Answered("get_nearby_pois")
    /\ ResolveLocation(nodes, pois, rooms, result.a) \in nodes
    /\ result.max_distance < Inf
    /\ Len(result.value) = 2
    /\ result.value[1].distance < result.value[2].distance
    /\ PoiKeys(features, 1, << >>)[1] = result.value[2].id

\* The weight of a returned path; None has none.
PathWeight(adj, path) == IF path = NoPath THEN Inf ELSE WalkWeight(adj, path)

\* C12: once the graph and the tables are built, no query (get_distance,
\* find_path, get_path_instructions, _resolve_location, navigate,
\* get_nearby_pois, with known or unknown identifiers, reachable or not)
\* changes nodes, edges, adjacency, the distance matrix, the index map or the
\* POI and room tables; and the same query asked again after the answer
\* returns the same distance and a path of the same weight.
C12_QueriesReadOnly ==
    [][/\ pc \in {"ready", "answered"} =>
              UNCHANGED <<nodes, edges, adjacency, node_index_map, weight_matrix,
                          pois, rooms>>
       /\ (pc = "answered" /\ pc' = "ready") =>
              /\ result.op = "get_distance" =>
                     GetDistanceOf(node_index_map', weight_matrix', result.a, result.b)
                         = result.value
              /\ result.op = "find_path" =>
                     \A order \in Orders(nodes') :
                         PathWeight(adjacency',
                                    FindPath(nodes', adjacency', order,
                                             result.a, result.b))
                             = PathWeight(adjacency, result.value)
              /\ result.op = "navigate" =>
                     \A order \in Orders(nodes') :
                         LET again == Navigate(nodes', edges', adjacency',
                                               node_index_map', weight_matrix',
                                               pois', rooms', order,
                                               result.a, result.b)
                         IN  /\ again.found = result.value.found
                             /\ again.distance = result.value.distance
                             /\ PathWeight(adjacency', again.path)
                                    = PathWeight(adjacency, result.value.path)
              /\ result.op = "get_nearby_pois" =>
                     GetNearbyPoisOf(nodes', node_index_map', weight_matrix', pois',
                                     rooms', PoiKeys(features', 1, << >>),
                                     result.a, result.max_distance)
                         = result.value]_vars

\* A navigate from an unknown identifier has been answered on a graph with an
\* unreachable pair (b1 to a1) and with POIs and rooms loaded, and the
\* adjacency, the matrix and the POI table are as they were built.
C12_Witness ==
    /\ Answered("navigate")
    /\ result.a = "zz"
    /\ ~result.value.found
    /\ DOMAIN pois # {}
    /\ DOMAIN rooms # {}
    /\ FindPath(nodes, adjacency, Sorted(nodes), "b1", "a1") = NoPath
    /\ adjacency = BuildAdjacencyList(nodes, edges)
    /\ weight_matrix = BuildWeightMatrix(nodes, edges)
    /\ pois = LoadPois(features, 1, << >>)

====
